---- MODULE Spec2Model ----
(***************************************************************************)
(* Stream operators of genji's query layer (document/stream/operator.go): *)
(* Map, Filter, Take, Skip, GroupBy and Reduce, each an Operator whose    *)
(* Op() builds the closure (OperatorFunc) that Stream.Iterate threads     *)
(* every source Environment through.                                      *)
(*                                                                         *)
(* Streams are the nested values the code builds: New(src).Pipe(op1)...   *)
(* .Pipe(opk), each Stream{it, op} having the previous stream as its      *)
(* iterator; ops[j] is the operator of the j-th Pipe.  A ReduceOperator,  *)
(* when present, is the last operator; its Pipe stores the sub-stream in  *)
(* op.Stream and returns Stream{it: s, op: op}.                            *)
(*                                                                         *)
(* Stream.Iterate, the source iterator and expr.Environment are not part  *)
(* of operator.go; they follow the design document (4.1, 4.2, 6).         *)
(***************************************************************************)
EXTENDS Integers, Sequences, FiniteSets, TLC

\* Longest source sequence drawn in Init.
MaxLen == 3
\* Largest count given to Take and Skip.
MaxCount == 2

(***************************************************************************)
(* Values (document.Value): a type tag and a payload.                      *)
(***************************************************************************)
NewIntegerValue(n) == [t |-> "int", v |-> n]
NewBoolValue(b) == [t |-> "bool", v |-> IF b THEN 1 ELSE 0]
\* A text value that is no number: arithmetic on it fails to evaluate, and
\* neither an integer cast nor a truthiness conversion exists for it.
Text == [t |-> "text", v |-> 0]
\* The zero document.Value of an unset slot / a failed lookup.
NoVal == [t |-> "none", v |-> 0]

\* error values; NoErr is Go's nil error
NoErr == "nil"
ErrStreamClosed == "ErrStreamClosed"
EvalError == "EvalError"
TypeError == "TypeError"
CastError == "CastError"

\* (value, error) results
Ok(v) == [val |-> v, err |-> NoErr]
Fail(e) == [val |-> NoVal, err |-> e]

(***************************************************************************)
(* Environments live in a heap: a sequence of frames, an *Environment     *)
(* being an index into it and Nil the nil pointer.                         *)
(***************************************************************************)
Nil == 0
groupEnvKey == "_group"
accEnvKey == "_acc"
NoVars == [_group |-> NoVal, _acc |-> NoVal]
\* var newEnv expr.Environment: Go's zero value
EmptyEnv == [cur |-> NoVal, vars |-> NoVars, outer |-> Nil]

\* env.Set(name, value): binds name in the local frame only
EnvSet(h, ref, name, v) == [h EXCEPT ![ref].vars[name] = v]
\* env.SetCurrentValue(v)
SetCurrentValue(h, ref, v) == [h EXCEPT ![ref].cur = v]
SetOuter(h, ref, o) == [h EXCEPT ![ref].outer = o]

RECURSIVE EnvGetOuterFirst(_, _, _)
\* EnvGet that asks the outer frame before the local bindings
EnvGetOuterFirst(h, ref, name) ==
    IF ref = Nil THEN NoVal
    ELSE LET o == EnvGetOuterFirst(h, h[ref].outer, name)
         IN  IF o # NoVal THEN o ELSE h[ref].vars[name]

RECURSIVE EnvGet(_, _, _)
\* env.Get(path): local bindings first, then the outer frame
EnvGet(h, ref, name) ==
    IF ref = Nil THEN NoVal
    ELSE IF h[ref].vars[name] # NoVal THEN h[ref].vars[name]
    ELSE EnvGet(h, h[ref].outer, name)

RECURSIVE GetCurrentValue(_, _)
\* env.GetCurrentValue(): the frame's slot, else the nearest outer one set
GetCurrentValue(h, ref) ==
    IF ref = Nil THEN NoVal
    ELSE IF h[ref].cur # NoVal THEN h[ref].cur
    ELSE GetCurrentValue(h, h[ref].outer)

(***************************************************************************)
(* Expressions (expr.Expr) and the evaluator's contract.                   *)
(***************************************************************************)
Lit(v) == [f |-> "lit", v |-> v]
Fn(f) == [f |-> f, v |-> NoVal]
\* x => x * 10
Mul10 == Fn("mul10")
\* x => x > 1
Gt1 == Fn("gt1")
\* x => x
Self == Fn("self")
\* x => x % 2
Parity == Fn("parity")
\* _acc * 10 + x : a fold that depends on the order of the items
Shift == Fn("shift")
\* an expression whose evaluation fails
Failing == Fn("fail")

\* E.Eval(env)
Eval(e, h, ref) ==
    LET x == GetCurrentValue(h, ref)
        a == EnvGet(h, ref, accEnvKey)
    IN  CASE e.f = "lit" -> Ok(e.v)
          [] e.f = "mul10" -> IF x.t = "int" THEN Ok(NewIntegerValue(x.v * 10)) ELSE Fail(EvalError)
          [] e.f = "gt1" -> IF x.t = "int" THEN Ok(NewBoolValue(x.v > 1)) ELSE Fail(EvalError)
          [] e.f = "self" -> IF x # NoVal THEN Ok(x) ELSE Fail(EvalError)
          [] e.f = "parity" -> IF x.t = "int" THEN Ok(NewIntegerValue(x.v % 2)) ELSE Fail(EvalError)
          [] e.f = "shift" ->
                IF x.t = "int" /\ a.t = "int" THEN Ok(NewIntegerValue(a.v * 10 + x.v))
                ELSE Fail(EvalError)
          [] OTHER -> Fail(EvalError)

\* v.IsTruthy()
IsTruthy(v) ==
    CASE v.t = "bool" -> [ok |-> v.v = 1, err |-> NoErr]
      [] v.t = "int" -> [ok |-> v.v # 0, err |-> NoErr]
      [] OTHER -> [ok |-> FALSE, err |-> TypeError]

\* v.CastAsInteger()
CastAsInteger(v) ==
    CASE v.t = "int" -> Ok(v)
      [] v.t = "bool" -> Ok(NewIntegerValue(v.v))
      [] OTHER -> Fail(CastError)

(***************************************************************************)
(* Operators (the configuration objects) and the pipelines explored.       *)
(***************************************************************************)
Operator(kind, e, seed) == [kind |-> kind, e |-> e, seed |-> seed]
Map(e) == Operator("map", e, Fn("none"))
Filter(e) == Operator("filter", e, Fn("none"))
Take(n) == Operator("take", n, Fn("none"))
Skip(n) == Operator("skip", n, Fn("none"))
GroupBy(e) == Operator("groupBy", e, Fn("none"))
Reduce(seed, accumulator) == Operator("reduce", accumulator, seed)

Values == {NewIntegerValue(1), NewIntegerValue(2), Text}
\* the design document's end-to-end source
ExampleSource == <<NewIntegerValue(1), NewIntegerValue(2), NewIntegerValue(3), NewIntegerValue(4), NewIntegerValue(5)>>
Sources == UNION {[1..m -> Values] : m \in 0..MaxLen} \cup {ExampleSource}

CountExprs == {Lit(NewIntegerValue(c)) : c \in -1..MaxCount} \cup {Lit(NewBoolValue(TRUE)), Lit(Text)}
Singles ==
    {Map(Mul10), Filter(Gt1), Filter(Self), GroupBy(Parity)}
    \cup {Take(c) : c \in CountExprs} \cup {Skip(c) : c \in CountExprs}
Pairs ==
    {<<a, b>> : a \in Singles, b \in {Map(Mul10), Take(Lit(NewIntegerValue(1))), GroupBy(Self)}}
Triples ==
    {<<Skip(Lit(NewIntegerValue(k))), Take(Lit(NewIntegerValue(n))), Map(Mul10)>> : k, n \in 0..MaxCount}
SubStreams == {<<>>} \cup {<<a>> : a \in Singles}
Reduces == {Reduce(Lit(NewIntegerValue(0)), Shift), Reduce(Failing, Shift)}
Pipelines ==
    SubStreams \cup Pairs \cup Triples
    \cup {Append(s, r) : s \in SubStreams, r \in Reduces}

VARIABLES
    source,     \* the items the source iterator produces
    ops,        \* the operators piped onto the source, in Pipe order
    rewinds,    \* whether the source starts over when iterated again
    pc,         \* where the traversal stands
    phase,      \* "main": Stream.Iterate of the caller;
                \* "drain": op.Stream.Iterate inside ReduceOperator.Op
    k,          \* the operator being constructed or applied
    cursor,     \* how many items the source iterator has handed out
    env,        \* the *Environment threaded through the operators
    fn,         \* per operator, the variables its closure captured
    heap,       \* the Environments allocated so far
    pulls,      \* every item pulled from the source: its index and its env
    log,        \* every OperatorFunc invocation: operator, in, out, err
    delivered,  \* every call of the caller's callback: the env and its fields
    err,        \* the error in flight / returned by the traversal
    result,     \* what the caller's Iterate returned ("running" until then)
    prev        \* the caller's earlier traversals of the same stream: what
                \* each left behind (pulls, log, delivered, fn, result)

vars == <<source, ops, rewinds, pc, phase, k, cursor, env, fn, heap, pulls,
          log, delivered, err, result, prev>>

\* what a closure captures: n and count/skipped (Take, Skip), &newEnv (Map,
\* GroupBy, Reduce)
NoClosure == [n |-> 0, count |-> 0, newEnv |-> Nil]

HasReduce == Len(ops) > 0 /\ ops[Len(ops)].kind = "reduce"
\* the operators of the stream being iterated: all of them for the caller's
\* stream, those of op.Stream while Reduce drains it
Top == IF phase = "drain" THEN Len(ops) - 1 ELSE Len(ops)

Init ==
    /\ source \in Sources
    /\ ops \in Pipelines
    /\ rewinds \in (IF HasReduce THEN BOOLEAN ELSE {TRUE})
    /\ pc = "idle"
    /\ phase = "main"
    /\ k = 0
    /\ cursor = 0
    /\ env = Nil
    /\ fn = [j \in 1..Len(ops) |-> NoClosure]
    /\ heap = <<>>
    /\ pulls = <<>>
    /\ log = <<>>
    /\ delivered = <<>>
    /\ err = NoErr
    /\ result = "running"
    /\ prev = <<>>

(***************************************************************************)
(* Op(): what each operator's constructor returns, [c: the variables the   *)
(* closure captures, h: the heap, err].                                    *)
(***************************************************************************)
Built(c, h) == [c |-> c, h |-> h, err |-> NoErr]
NotBuilt(h, e) == [c |-> NoClosure, h |-> h, err |-> e]

\* MapOperator.Op: var newEnv expr.Environment
MapOp(op, h) == Built([NoClosure EXCEPT !.newEnv = Len(h) + 1], Append(h, EmptyEnv))

\* FilterOperator.Op: captures nothing
FilterOp(op, h) == Built(NoClosure, h)

\* TakeOperator.Op / SkipOperator.Op up to the closure: evaluate the count
\* against an empty Environment and cast it to an integer; count starts at 0
CountOp(op, h) ==
    LET v == Eval(op.e, h, Nil)
        w == IF v.err = NoErr /\ v.val.t # "int" THEN CastAsInteger(v.val) ELSE v
    IN  IF v.err # NoErr THEN NotBuilt(h, v.err)
        ELSE IF w.err # NoErr THEN NotBuilt(h, w.err)
        ELSE Built([NoClosure EXCEPT !.n = w.val.v], h)

TakeOp(op, h) == CountOp(op, h)

SkipOp(op, h) == CountOp(op, h)

\* GroupByOperator.Op: var newEnv expr.Environment
GroupByOp(op, h) == Built([NoClosure EXCEPT !.newEnv = Len(h) + 1], Append(h, EmptyEnv))

\* ReduceOperator.Op up to the call of op.Stream.Iterate: the seed is
\* evaluated against the new frame and bound to _acc
ReduceSeed(op, h) ==
    LET newEnv == Len(h) + 1
        h1 == Append(h, EmptyEnv)
        seed == Eval(op.seed, h1, newEnv)
    IN  IF seed.err # NoErr THEN NotBuilt(h1, seed.err)
        ELSE Built([NoClosure EXCEPT !.newEnv = newEnv],
                   EnvSet(h1, newEnv, accEnvKey, seed.val))

(***************************************************************************)
(* The OperatorFuncs: given the captured variables c, the heap h and the   *)
(* incoming env e, [c, h, env: the Environment returned, err].             *)
(***************************************************************************)
Ret(c, h, e, er) == [c |-> c, h |-> h, env |-> e, err |-> er]

\* MapFn that drops an item whose evaluation fails: return nil, nil
MapFnSwallowsError(op, c, h, e) ==
    LET v == Eval(op.e, h, e)
    IN  IF v.err # NoErr THEN Ret(c, h, Nil, NoErr)
        ELSE Ret(c, SetOuter(SetCurrentValue(h, c.newEnv, v.val), c.newEnv, e),
                 c.newEnv, NoErr)

\* MapFn without newEnv.Outer = env
MapFnNoOuter(op, c, h, e) ==
    LET v == Eval(op.e, h, e)
    IN  IF v.err # NoErr THEN Ret(c, h, Nil, v.err)
        ELSE Ret(c, SetCurrentValue(h, c.newEnv, v.val), c.newEnv, NoErr)

\* MapFn that allocates a new Environment on every call
MapFnFreshFrame(op, c, h, e) ==
    LET v == Eval(op.e, h, e)
        newEnv == Len(h) + 1
    IN  IF v.err # NoErr THEN Ret(c, h, Nil, v.err)
        ELSE Ret(c, SetOuter(SetCurrentValue(Append(h, EmptyEnv), newEnv, v.val), newEnv, e),
                 newEnv, NoErr)

MapFn(op, c, h, e) ==
    LET v == Eval(op.e, h, e)
    IN  IF v.err # NoErr THEN Ret(c, h, Nil, v.err)
        ELSE Ret(c, SetOuter(SetCurrentValue(h, c.newEnv, v.val), c.newEnv, e),
                 c.newEnv, NoErr)

\* FilterFn with the test inverted: if ok { return nil, nil }
FilterFnInverted(op, c, h, e) ==
    LET v == Eval(op.e, h, e)
        t == IsTruthy(v.val)
    IN  IF v.err # NoErr THEN Ret(c, h, Nil, v.err)
        ELSE IF t.err # NoErr THEN Ret(c, h, Nil, t.err)
        ELSE IF t.ok THEN Ret(c, h, Nil, NoErr)
        ELSE Ret(c, h, e, NoErr)

FilterFn(op, c, h, e) ==
    LET v == Eval(op.e, h, e)
        t == IsTruthy(v.val)
    IN  IF v.err # NoErr THEN Ret(c, h, Nil, v.err)
        ELSE IF t.err # NoErr THEN Ret(c, h, Nil, t.err)
        ELSE IF ~t.ok THEN Ret(c, h, Nil, NoErr)
        ELSE Ret(c, h, e, NoErr)

\* TakeFn with count <= n
TakeFnOffByOne(op, c, h, e) ==
    IF c.count <= c.n THEN Ret([c EXCEPT !.count = c.count + 1], h, e, NoErr)
    ELSE Ret(c, h, Nil, ErrStreamClosed)

\* TakeFn that drops the items after the nth instead of closing the stream
TakeFnNeverCloses(op, c, h, e) ==
    IF c.count < c.n THEN Ret([c EXCEPT !.count = c.count + 1], h, e, NoErr)
    ELSE Ret(c, h, Nil, NoErr)

\* TakeFn that answers an ordinary error where the sentinel belongs
TakeFnReturnsError(op, c, h, e) ==
    IF c.count < c.n THEN Ret([c EXCEPT !.count = c.count + 1], h, e, NoErr)
    ELSE Ret(c, h, Nil, EvalError)

\* TakeFn with count != n
TakeFnNotEqual(op, c, h, e) ==
    IF c.count # c.n THEN Ret([c EXCEPT !.count = c.count + 1], h, e, NoErr)
    ELSE Ret(c, h, Nil, ErrStreamClosed)

TakeFn(op, c, h, e) ==
    IF c.count < c.n THEN Ret([c EXCEPT !.count = c.count + 1], h, e, NoErr)
    ELSE Ret(c, h, Nil, ErrStreamClosed)

\* SkipFn without skipped++
SkipFnForgetsCount(op, c, h, e) ==
    IF c.count < c.n THEN Ret(c, h, Nil, NoErr)
    ELSE Ret(c, h, e, NoErr)

\* SkipFn that counts the item but hands it on: return env, nil
SkipFnPassesSkipped(op, c, h, e) ==
    IF c.count < c.n THEN Ret([c EXCEPT !.count = c.count + 1], h, e, NoErr)
    ELSE Ret(c, h, e, NoErr)

SkipFn(op, c, h, e) ==
    IF c.count < c.n THEN Ret([c EXCEPT !.count = c.count + 1], h, Nil, NoErr)
    ELSE Ret(c, h, e, NoErr)

\* GroupByFn without newEnv.Outer = env
GroupByFnNoOuter(op, c, h, e) ==
    LET v == Eval(op.e, h, e)
    IN  IF v.err # NoErr THEN Ret(c, h, Nil, v.err)
        ELSE Ret(c, EnvSet(h, c.newEnv, groupEnvKey, v.val), c.newEnv, NoErr)

GroupByFn(op, c, h, e) ==
    LET v == Eval(op.e, h, e)
    IN  IF v.err # NoErr THEN Ret(c, h, Nil, v.err)
        ELSE Ret(c, SetOuter(EnvSet(h, c.newEnv, groupEnvKey, v.val), c.newEnv, e),
                 c.newEnv, NoErr)

\* the closure ReduceOperator.Op returns
ReduceFn(op, c, h, e) ==
    LET v == EnvGet(h, c.newEnv, accEnvKey)
    IN  Ret(c, SetOuter(SetCurrentValue(h, c.newEnv, v), c.newEnv, e), c.newEnv, NoErr)

\* Accumulate that goes on to the next item when the accumulator fails
AccumulateIgnoresError(op, c, h, e) ==
    LET h1 == SetOuter(h, c.newEnv, e)
        v == Eval(op.e, h1, c.newEnv)
    IN  IF v.err # NoErr THEN Ret(c, h1, Nil, NoErr)
        ELSE Ret(c, EnvSet(h1, c.newEnv, accEnvKey, v.val), Nil, NoErr)

\* Accumulate that keeps the group key of the last item and starts over
\* from the seed when the key changes: one value per group
AccumulatePerGroup(op, c, h, e) ==
    LET g == EnvGet(h, e, groupEnvKey)
        last == h[c.newEnv].vars[groupEnvKey]
        h1 == EnvSet(SetOuter(h, c.newEnv, e), c.newEnv, groupEnvKey, g)
        h2 == IF last = NoVal \/ last = g THEN h1
              ELSE EnvSet(h1, c.newEnv, accEnvKey, NewIntegerValue(0))
        v == Eval(op.e, h2, c.newEnv)
    IN  IF v.err # NoErr THEN Ret(c, h2, Nil, v.err)
        ELSE Ret(c, EnvSet(h2, c.newEnv, accEnvKey, v.val), Nil, NoErr)

\* the callback ReduceOperator.Op gives to op.Stream.Iterate
Accumulate(op, c, h, e) ==
    LET h1 == SetOuter(h, c.newEnv, e)
        v == Eval(op.e, h1, c.newEnv)
    IN  IF v.err # NoErr THEN Ret(c, h1, Nil, v.err)
        ELSE Ret(c, EnvSet(h1, c.newEnv, accEnvKey, v.val), Nil, NoErr)

(***************************************************************************)
(* Stream.Iterate                                                          *)
(***************************************************************************)
\* The caller invokes Iterate on the stream: its operator is constructed
\* first, then the stream it reads from is iterated.
Iterate ==
    /\ pc = "idle"
    /\ pc' = "construct"
    /\ k' = Len(ops)
    /\ phase' = "main"
    /\ UNCHANGED <<source, ops, rewinds, prev, cursor, env, fn, heap, pulls, log,
                   delivered, err, result>>

\* opFn, err := s.op.Op(): on an error Iterate returns it, else the stream
\* below is iterated
Constructed(r) ==
    /\ fn' = [fn EXCEPT ![k] = r.c]
    /\ heap' = r.h
    /\ IF r.err # NoErr
       THEN /\ pc' = "return"
            /\ err' = r.err
            /\ k' = k
       ELSE /\ pc' = "construct"
            /\ err' = err
            /\ k' = k - 1
    /\ UNCHANGED <<source, ops, rewinds, prev, phase, cursor, env, pulls, log,
                   delivered, result>>

AtOp(kind) == pc = "construct" /\ k >= 1 /\ ops[k].kind = kind

ConstructMap == AtOp("map") /\ Constructed(MapOp(ops[k], heap))

ConstructFilter == AtOp("filter") /\ Constructed(FilterOp(ops[k], heap))

\* TakeOperator.Op with count kept in the operator rather than declared in
\* Op: a later Op() goes on from where the last closure stopped
ConstructTakeKeepsCount ==
    /\ AtOp("take")
    /\ Constructed([TakeOp(ops[k], heap) EXCEPT !.c.count = fn[k].count])

ConstructTake == AtOp("take") /\ Constructed(TakeOp(ops[k], heap))

ConstructSkip == AtOp("skip") /\ Constructed(SkipOp(ops[k], heap))

ConstructGroupBy == AtOp("groupBy") /\ Constructed(GroupByOp(ops[k], heap))

\* ReduceOperator.Op, first half: the seed, then op.Stream.Iterate(...) is
\* entered (the sub-stream's operators are constructed next)
ConstructReduce ==
    /\ AtOp("reduce")
    /\ LET r == ReduceSeed(ops[k], heap)
       IN  /\ fn' = [fn EXCEPT ![k] = r.c]
           /\ heap' = r.h
           /\ IF r.err # NoErr
              THEN /\ pc' = "return"
                   /\ err' = r.err
                   /\ UNCHANGED <<phase, k>>
              ELSE /\ pc' = "construct"
                   /\ phase' = "drain"
                   /\ k' = k - 1
                   /\ err' = err
    /\ UNCHANGED <<source, ops, rewinds, prev, cursor, env, pulls, log, delivered,
                   result>>

\* every operator is built: the source iterator's Iterate is called
SourceIterate ==
    /\ pc = "construct"
    /\ k = 0
    /\ cursor' = IF rewinds THEN 0 ELSE cursor
    /\ pc' = "pull"
    /\ UNCHANGED <<source, ops, rewinds, prev, phase, k, env, fn, heap, pulls, log,
                   delivered, err, result>>

\* the source produces its next item, in an Environment of its own, and the
\* first operator (or, with none, the callback) receives it
Pull ==
    /\ pc = "pull"
    /\ cursor < Len(source)
    /\ cursor' = cursor + 1
    /\ heap' = Append(heap, [EmptyEnv EXCEPT !.cur = source[cursor + 1]])
    /\ env' = Len(heap) + 1
    /\ pulls' = Append(pulls, [idx |-> cursor + 1, env |-> Len(heap) + 1,
                               phase |-> phase])
    /\ IF Top >= 1 THEN pc' = "step" /\ k' = 1 ELSE pc' = "callback" /\ k' = k
    /\ UNCHANGED <<source, ops, rewinds, prev, phase, fn, log, delivered, err, result>>

\* the source signals end-of-input
EndOfInput ==
    /\ pc = "pull"
    /\ cursor >= Len(source)
    /\ pc' = "return"
    /\ err' = NoErr
    /\ env' = Nil
    /\ UNCHANGED <<source, ops, rewinds, prev, phase, k, cursor, fn, heap, pulls,
                   log, delivered, result>>

\* env, err := opFn(env), and what Iterate does with the answer: an error
\* (the sentinel too) stops the traversal, a nil env drops the item, any
\* other env goes to the next operator or, after the last, to the callback
Applied(r) ==
    /\ fn' = [fn EXCEPT ![k] = r.c]
    /\ heap' = r.h
    /\ log' = Append(log, [op |-> k, phase |-> phase, in |-> env,
                           out |-> r.env, err |-> r.err])
    /\ env' = r.env
    /\ IF r.err # NoErr
       THEN pc' = "return" /\ err' = r.err /\ k' = k
       ELSE IF r.env = Nil
       THEN pc' = "pull" /\ err' = err /\ k' = k
       ELSE IF k < Top
       THEN pc' = "step" /\ err' = err /\ k' = k + 1
       ELSE pc' = "callback" /\ err' = err /\ k' = k
    /\ UNCHANGED <<source, ops, rewinds, prev, phase, cursor, pulls, delivered, result>>

InOp(kind) == pc = "step" /\ ops[k].kind = kind

StepMap == InOp("map") /\ Applied(MapFn(ops[k], fn[k], heap, env))

StepFilter == InOp("filter") /\ Applied(FilterFn(ops[k], fn[k], heap, env))

StepTake == InOp("take") /\ Applied(TakeFn(ops[k], fn[k], heap, env))

StepSkip == InOp("skip") /\ Applied(SkipFn(ops[k], fn[k], heap, env))

StepGroupBy == InOp("groupBy") /\ Applied(GroupByFn(ops[k], fn[k], heap, env))

StepReduce == InOp("reduce") /\ Applied(ReduceFn(ops[k], fn[k], heap, env))

\* what the caller's callback sees of the Environment it is given
Seen(h, e) ==
    [env |-> e, cur |-> h[e].cur, outer |-> h[e].outer,
     group |-> EnvGet(h, e, groupEnvKey), value |-> GetCurrentValue(h, e)]

\* fn(env) of the caller: it records what it is given and returns nil
Callback ==
    /\ pc = "callback"
    /\ phase = "main"
    /\ delivered' = Append(delivered, Seen(heap, env))
    /\ pc' = "pull"
    /\ UNCHANGED <<source, ops, rewinds, prev, phase, k, cursor, env, fn, heap,
                   pulls, log, err, result>>

\* fn(env) while Reduce drains its sub-stream: the accumulator
CallbackAccumulate ==
    /\ pc = "callback"
    /\ phase = "drain"
    /\ LET r == Accumulate(ops[Len(ops)], fn[Len(ops)], heap, env)
       IN  /\ heap' = r.h
           /\ IF r.err # NoErr
              THEN pc' = "return" /\ err' = r.err
              ELSE pc' = "pull" /\ err' = err
    /\ UNCHANGED <<source, ops, rewinds, prev, phase, k, cursor, env, fn, pulls,
                   log, delivered, result>>

\* what Iterate returns: nil for the sentinel, any other error as it is
Returned(e) == IF e = ErrStreamClosed THEN NoErr ELSE e

\* the caller's Iterate returns
Return ==
    /\ pc = "return"
    /\ phase = "main"
    /\ result' = Returned(err)
    /\ pc' = "done"
    /\ UNCHANGED <<source, ops, rewinds, prev, phase, k, cursor, env, fn, heap,
                   pulls, log, delivered, err>>

\* op.Stream.Iterate returns inside ReduceOperator.Op: an error is returned
\* by Op, else Op returns its closure and the stream below is iterated
\* ReturnToReduce that takes the sentinel for a failure of the sub-stream
ReturnToReduceClosedIsError ==
    /\ pc = "return"
    /\ phase = "drain"
    /\ phase' = "main"
    /\ err' = err
    /\ IF err # NoErr
       THEN pc' = "return" /\ k' = k
       ELSE pc' = "construct" /\ k' = Len(ops) - 1
    /\ UNCHANGED <<source, ops, rewinds, prev, cursor, env, fn, heap, pulls, log,
                   delivered, result>>

ReturnToReduce ==
    /\ pc = "return"
    /\ phase = "drain"
    /\ phase' = "main"
    /\ err' = Returned(err)
    /\ IF Returned(err) # NoErr
       THEN pc' = "return" /\ k' = k
       ELSE pc' = "construct" /\ k' = Len(ops) - 1
    /\ UNCHANGED <<source, ops, rewinds, prev, cursor, env, fn, heap, pulls, log,
                   delivered, result>>

Next ==
    \/ Iterate
    \/ ConstructMap
    \/ ConstructFilter
    \/ ConstructTake
    \/ ConstructSkip
    \/ ConstructGroupBy
    \/ ConstructReduce
    \/ SourceIterate
    \/ Pull
    \/ EndOfInput
    \/ StepMap
    \/ StepFilter
    \/ StepTake
    \/ StepSkip
    \/ StepGroupBy
    \/ StepReduce
    \/ Callback
    \/ CallbackAccumulate
    \/ Return
    \/ ReturnToReduce

Spec == Init /\ [][Next]_vars

(***************************************************************************)
(* The same stream value traversed a second time: the caller calls Iterate *)
(* again on it, so the same Operator values are asked for their closures   *)
(* again.  What the first traversal left behind is kept in prev.           *)
(***************************************************************************)
IterateAgain ==
    /\ pc = "done"
    /\ prev = <<>>
    /\ prev' = Append(prev, [pulls |-> pulls, log |-> log, delivered |-> delivered,
                             fn |-> fn, cursor |-> cursor, result |-> result])
    /\ pc' = "construct"
    /\ k' = Len(ops)
    /\ phase' = "main"
    /\ pulls' = <<>>
    /\ log' = <<>>
    /\ delivered' = <<>>
    /\ err' = NoErr
    /\ result' = "running"
    /\ UNCHANGED <<source, ops, rewinds, cursor, env, fn, heap>>

\* any source, whether or not it starts over when iterated again
InitReuse ==
    /\ source \in Sources
    /\ ops \in Pipelines
    /\ rewinds \in BOOLEAN
    /\ pc = "idle"
    /\ phase = "main"
    /\ k = 0
    /\ cursor = 0
    /\ env = Nil
    /\ fn = [j \in 1..Len(ops) |-> NoClosure]
    /\ heap = <<>>
    /\ pulls = <<>>
    /\ log = <<>>
    /\ delivered = <<>>
    /\ err = NoErr
    /\ result = "running"
    /\ prev = <<>>

NextReuse ==
    \/ Next
    \/ IterateAgain

SpecReuse == InitReuse /\ [][NextReuse]_vars

(***************************************************************************)
(* Vocabulary of the properties.                                           *)
(***************************************************************************)
Done == pc = "done"
Min(a, b) == IF a < b THEN a ELSE b
Max(a, b) == IF a > b THEN a ELSE b
\* the pipeline is the single operator kind(n), n an integer literal
Only(kind) ==
    /\ Len(ops) = 1
    /\ ops[1].kind = kind
CountIs(j, n) == ops[j].e.f = "lit" /\ ops[j].e.v = NewIntegerValue(n)
AllInt(S) == \A i \in 1..Len(S) : S[i].t = "int"
\* the current values the callback was given, in order
DeliveredValues == [i \in 1..Len(delivered) |-> delivered[i].value]
\* an Environment holding item x and nothing else, and e evaluated in it
ItemEnv(x) == <<[EmptyEnv EXCEPT !.cur = x]>>
EvalOn(e, x) == Eval(e, ItemEnv(x), 1)
\* the indices of S, in order, that satisfy Keep
RECURSIVE Kept(_, _, _)
Kept(S, Keep(_), i) ==
    IF i > Len(S) THEN <<>>
    ELSE (IF Keep(S[i]) THEN <<i>> ELSE <<>>) \o Kept(S, Keep, i + 1)

\* C1: a traversal of S through take(n), n >= 0, gives the callback exactly
\* the first min(n, |S|) items of S, in source order, and nothing else: at
\* any moment the deliveries are the first items of S, never more than
\* min(n, |S|) of them, and when Iterate has returned they are all there.
C1_TakeFirstN ==
    \A n \in 0..(MaxCount + 1) :
        (Only("take") /\ CountIs(1, n)) =>
            LET m == Min(n, Len(source))
            IN  /\ Len(delivered) <= m
                /\ \A i \in 1..Len(delivered) :
                      /\ delivered[i].value = source[i]
                      /\ delivered[i].env = pulls[i].env
                /\ Done => Len(delivered) = m /\ result = NoErr

C1_Witness ==
    /\ Done
    /\ Only("take") /\ CountIs(1, 2)
    /\ Len(source) = 3
    /\ DeliveredValues = SubSeq(source, 1, 2)

\* C2 as stated: over a source with more than n items the source is never
\* asked for an (n+1)th item, i.e. never more than n items are pulled.
C2_NoExtraPull ==
    \A n \in 0..(MaxCount + 1) :
        (Only("take") /\ CountIs(1, n) /\ Len(source) > n) => Len(pulls) <= n

\* C2 as the code has it: the closure only answers ErrStreamClosed when it
\* is called with the (n+1)th item, so the source is asked for n+1 items and
\* no more; the (n+1)th is rejected with the sentinel, is not delivered, and
\* ends the traversal.
C2_ClosedByNextItem ==
    \A n \in 0..(MaxCount + 1) :
        (Only("take") /\ CountIs(1, n) /\ Len(source) > n) =>
            /\ Len(pulls) <= n + 1
            /\ Len(delivered) <= n
            /\ \A i \in 1..Len(log) :
                  log[i].err = (IF i = n + 1 THEN ErrStreamClosed ELSE NoErr)
            /\ Done => /\ Len(pulls) = n + 1
                       /\ Len(log) = n + 1
                       /\ Len(delivered) = n

C2_Witness ==
    /\ Done
    /\ Only("take") /\ CountIs(1, 1)
    /\ Len(source) = 3
    /\ Len(pulls) = 2
    /\ Len(delivered) = 1
    /\ log[2].err = ErrStreamClosed

\* C3: a traversal of S through skip(n), n >= 0, delivers S without its
\* first min(n, |S|) items, in source order; what is delivered is the very
\* Environment that came in, and the closure never answers the sentinel or
\* an error.
C3_SkipDropsFirstN ==
    \A n \in 0..(MaxCount + 1) :
        (Only("skip") /\ CountIs(1, n)) =>
            LET m == Min(n, Len(source))
            IN  /\ Len(delivered) <= Len(source) - m
                /\ \A i \in 1..Len(delivered) :
                      /\ delivered[i].value = source[i + m]
                      /\ delivered[i].env = pulls[i + m].env
                /\ \A i \in 1..Len(log) :
                      /\ log[i].err = NoErr
                      /\ log[i].out = (IF i <= n THEN Nil ELSE log[i].in)
                /\ Done => Len(delivered) = Len(source) - m /\ result = NoErr

C3_Witness ==
    /\ Done
    /\ Only("skip") /\ CountIs(1, 1)
    /\ Len(source) = 3
    /\ DeliveredValues = SubSeq(source, 2, 3)

\* p evaluates on x and its result has a truthiness
Decides(p, x) == EvalOn(p, x).err = NoErr /\ IsTruthy(EvalOn(p, x).val).err = NoErr
Truthy(p, x) == IsTruthy(EvalOn(p, x).val).ok

\* C4: when p evaluates and converts on every item of S, a traversal
\* through filter(p) delivers exactly the items of S on which p is truthy,
\* in source order; each delivery is the very Environment that came in, and
\* an item that is not truthy is answered with a nil Environment, no error.
C4_FilterKeepsTruthy ==
    (Only("filter") /\ \A i \in 1..Len(source) : Decides(ops[1].e, source[i])) =>
        LET p == ops[1].e
            IsTrue(x) == Truthy(p, x)
            want == Kept(source, IsTrue, 1)
        IN  /\ Len(delivered) <= Len(want)
            /\ \A i \in 1..Len(delivered) :
                  /\ delivered[i].value = source[want[i]]
                  /\ delivered[i].env = pulls[want[i]].env
            /\ \A i \in 1..Len(log) :
                  /\ log[i].err = NoErr
                  /\ log[i].in = pulls[i].env
                  /\ log[i].out = (IF Truthy(p, source[i]) THEN log[i].in ELSE Nil)
            /\ Done => Len(delivered) = Len(want) /\ result = NoErr

C4_Witness ==
    /\ Done
    /\ ops = <<Filter(Gt1)>>
    /\ source = <<NewIntegerValue(2), NewIntegerValue(1), NewIntegerValue(2)>>
    /\ Len(delivered) = 2
    /\ delivered[2].env = pulls[3].env

\* C5: when e evaluates on every item of S, a traversal through map(e)
\* calls the callback once per item, in source order; at the i-th call the
\* frame's current value is e evaluated against the i-th source Environment
\* and its outer reference is that Environment; the closure never answers a
\* nil Environment, the sentinel or an error.
C5_MapOnePerItem ==
    (Only("map") /\ \A i \in 1..Len(source) : EvalOn(ops[1].e, source[i]).err = NoErr) =>
        /\ Len(delivered) <= Len(source)
        /\ \A i \in 1..Len(delivered) :
              /\ delivered[i].cur = EvalOn(ops[1].e, source[i]).val
              /\ delivered[i].outer = pulls[i].env
              /\ delivered[i].env # pulls[i].env
        /\ \A i \in 1..Len(log) : log[i].err = NoErr /\ log[i].out # Nil
        /\ Done => Len(delivered) = Len(source) /\ result = NoErr

C5_Witness ==
    /\ Done
    /\ ops = <<Map(Mul10)>>
    /\ source = <<NewIntegerValue(2), NewIntegerValue(1), NewIntegerValue(2)>>
    /\ DeliveredValues = <<NewIntegerValue(20), NewIntegerValue(10), NewIntegerValue(20)>>

\* the pipeline is Reduce(seed 0, _acc * 10 + x) piped onto the bare source
ReduceOverSource == ops = <<Reduce(Lit(NewIntegerValue(0)), Shift)>>
\* acc(...acc(acc(a, S[i]), S[i+1])..., S[|S|]) for acc = _acc * 10 + x
RECURSIVE LeftFold(_, _, _)
LeftFold(a, S, i) == IF i > Len(S) THEN a ELSE LeftFold(a * 10 + S[i].v, S, i + 1)
\* the invocations of operator j's closure during the caller's traversal
StepsOf(j) == SelectSeq(log, LAMBDA l : l.op = j /\ l.phase = "main")

\* C6: a traversal of Reduce.Pipe(s), s producing the non-empty sequence
\* [v1, ..., vk], calls the closure once and the callback once, with the
\* left fold acc(...acc(acc(seed, v1), v2)..., vk) as the current value.
\* (Stated for a source that can be iterated again, as genji's iterators
\* can; one that cannot gives the closure and the callback no call at all.)
C6_ReduceOnce ==
    (Done /\ rewinds /\ ReduceOverSource /\ Len(source) >= 1 /\ AllInt(source)) =>
        /\ Len(StepsOf(1)) = 1
        /\ Len(delivered) = 1
        /\ delivered[1].value = NewIntegerValue(LeftFold(0, source, 1))

\* C7: a traversal of Reduce.Pipe(s), s producing no items, calls the
\* callback exactly once, with the evaluated seed as the current value.
C7_ReduceEmptySeed ==
    (Done /\ ReduceOverSource /\ source = <<>>) =>
        /\ Len(delivered) = 1
        /\ delivered[1].value = NewIntegerValue(0)

\* the last closure invocation answered the sentinel / an error that is not
\* the sentinel
LastErr == IF log = <<>> THEN NoErr ELSE log[Len(log)].err
LastPhase == IF log = <<>> THEN "main" ELSE log[Len(log)].phase
Closed == LastErr = ErrStreamClosed
Failed == LastErr \notin {NoErr, ErrStreamClosed}

\* C8: once a closure has answered the sentinel, the traversal it ran in
\* does nothing more: no callback for that item or a later one (the
\* accumulator neither, when Reduce is draining), no closure invocation, no
\* pull from the source; and that Iterate returns nil.  So over take(n) and
\* a longer source Iterate returns nil having called the callback n times.
C8_ClosedStops ==
    /\ [][(Closed /\ phase = LastPhase) =>
            /\ delivered' = delivered
            /\ heap' = heap
            /\ log' = log
            /\ pulls' = pulls
            /\ (phase = "drain" => err' = NoErr)]_vars
    /\ [](Done /\ Closed /\ LastPhase = "main" => result = NoErr)
    /\ [](\A n \in 0..(MaxCount + 1) :
            (Done /\ Only("take") /\ CountIs(1, n) /\ Len(source) > n) =>
                Closed /\ result = NoErr /\ Len(delivered) = n)

C8_Witness ==
    /\ Done
    /\ Closed
    /\ ops = <<Take(Lit(NewIntegerValue(1))), Map(Mul10)>>
    /\ Len(source) = 3
    /\ Len(StepsOf(2)) = 1
    /\ Len(delivered) = 1
    /\ result = NoErr

\* the position of the first item of S that is no integer (|S| + 1: none)
RECURSIVE FirstBad(_, _)
FirstBad(S, i) == IF i > Len(S) \/ S[i].t # "int" THEN i ELSE FirstBad(S, i + 1)

\* C9: once a closure has answered an error that is not the sentinel,
\* nothing more happens: no callback for that item or a later one, no
\* closure invocation, no pull; Iterate returns exactly that error; and the
\* callbacks made before stand.  So map(e) over a source whose i-th item is
\* the first on which e fails calls the callback for the i-1 items before
\* it and returns e's error.
C9_ErrorStops ==
    /\ [][Failed => delivered' = delivered /\ log' = log /\ pulls' = pulls]_vars
    /\ [](Done /\ Failed => result = LastErr)
    /\ [][SubSeq(delivered', 1, Len(delivered)) = delivered]_vars
    /\ [](LET i == FirstBad(source, 1)
          IN  (Done /\ ops = <<Map(Mul10)>> /\ i <= Len(source)) =>
                  /\ result = EvalError
                  /\ Len(pulls) = i
                  /\ DeliveredValues =
                        [j \in 1..(i - 1) |-> NewIntegerValue(source[j].v * 10)])

C9_Witness ==
    /\ Done
    /\ Failed
    /\ ops = <<Map(Mul10)>>
    /\ source = <<NewIntegerValue(1), NewIntegerValue(2), Text>>
    /\ result = EvalError
    /\ DeliveredValues = <<NewIntegerValue(10), NewIntegerValue(20)>>

IsSkipTakeMap(sk, n) ==
    ops = <<Skip(Lit(NewIntegerValue(sk))), Take(Lit(NewIntegerValue(n))), Map(Mul10)>>

\* C10: in skip(sk) -> take(n) -> map(e) an item skip suppresses reaches
\* neither take nor map and does not advance take's counter, so the
\* callback gets e applied to S[sk+1 .. min(sk+n, |S|)], in order (those
\* items being ones e evaluates on); [1,2,3,4,5] through skip(1), take(2),
\* map(x*10) delivers exactly [20, 30] and Iterate returns nil.
C10_SkipTakeMap ==
    /\ \A sk, n \in 0..(MaxCount + 1) :
          LET hi == Min(sk + n, Len(source))
              m == Max(hi - sk, 0)
          IN  (IsSkipTakeMap(sk, n) /\ AllInt(SubSeq(source, sk + 1, hi))) =>
                  /\ Len(delivered) <= m
                  /\ \A i \in 1..Len(delivered) :
                        delivered[i].value = NewIntegerValue(source[sk + i].v * 10)
                  /\ \A i, j \in 1..Len(log) :
                        (log[i].op = 1 /\ log[i].out = Nil /\ log[j].op # 1)
                            => log[j].in # log[i].in
                  /\ Len(StepsOf(2)) <= Len(SelectSeq(StepsOf(1), LAMBDA l : l.out # Nil))
                  /\ fn[2].count <= m
                  /\ Done => fn[2].count = m /\ Len(delivered) = m /\ result = NoErr
    /\ (Done /\ IsSkipTakeMap(1, 2) /\ source = ExampleSource) =>
          /\ DeliveredValues = <<NewIntegerValue(20), NewIntegerValue(30)>>
          /\ result = NoErr

C10_Witness ==
    /\ Done
    /\ IsSkipTakeMap(1, 2)
    /\ source = ExampleSource
    /\ DeliveredValues = <<NewIntegerValue(20), NewIntegerValue(30)>>
    /\ Len(pulls) = 4

\* the caller is in its second traversal of the stream
Again == prev # <<>>
\* the items the source has left for a second traversal
LeftOver == IF rewinds THEN Len(source) ELSE Len(source) - prev[1].cursor

\* C11 as stated: after a first traversal in which take(n)'s counter
\* reached n, a second traversal reusing the same Take operator delivers
\* nothing.
C11_SecondDeliversNothing ==
    \A n \in 0..(MaxCount + 1) :
        (Again /\ Only("take") /\ CountIs(1, n) /\ prev[1].fn[1].count = n) =>
            delivered = <<>>

\* C11 as the code has it: count is declared in Op(), and the second
\* traversal asks the same TakeOperator for a new closure, whose count
\* starts at 0 whatever the first closure's count was.  The second traversal
\* delivers the first min(n, |S'|) items of the S' the source produces for
\* it: all of S again when the source starts over, the items not yet pulled
\* when it does not.
C11_SecondStartsAfresh ==
    \A n \in 0..(MaxCount + 1) :
        (Again /\ Only("take") /\ CountIs(1, n) /\ prev[1].fn[1].count = n) =>
            LET base == IF rewinds THEN 0 ELSE prev[1].cursor
                m == Min(n, LeftOver)
            IN  /\ Len(delivered) <= m
                /\ (pc = "construct" /\ k = 0) => fn[1].count = 0
                /\ pc \in {"pull", "return", "done"} => fn[1].count = Len(delivered)
                /\ \A i \in 1..Len(delivered) :
                      delivered[i].value = source[base + i]
                /\ Done => Len(delivered) = m /\ result = NoErr

C11_Witness ==
    /\ Again
    /\ Done
    /\ Only("take") /\ CountIs(1, 2)
    /\ prev[1].fn[1].count = 2
    /\ Len(source) = 3
    /\ DeliveredValues = SubSeq(source, 1, 2)
    /\ DeliveredValues = [i \in 1..2 |-> prev[1].delivered[i].value]

(***************************************************************************)
(* C12: lookup in an Environment shadows lexically.  For every name, a     *)
(* frame that binds it locally answers its own value, also when its outer  *)
(* frame binds the same name to another value, and the outer frame asked   *)
(* directly answers the outer value; a Set on one frame changes the         *)
(* bindings of no other frame.  groupBy(x % 2) followed by groupBy(x) is   *)
(* the pipeline in which one _group shadows another.                       *)
(***************************************************************************)
Names == {groupEnvKey, accEnvKey}
Shadowing == ops = <<GroupBy(Parity), GroupBy(Self)>>

C12_LexicalShadowing ==
    /\ [](\A ref \in 1..Len(heap) : \A x \in Names :
            heap[ref].vars[x] # NoVal => EnvGet(heap, ref, x) = heap[ref].vars[x])
    /\ []((Shadowing /\ pc = "callback") =>
            /\ EnvGet(heap, env, groupEnvKey) = source[cursor]
            /\ EnvGet(heap, heap[env].outer, groupEnvKey)
                   = NewIntegerValue(source[cursor].v % 2))
    /\ [][\A ref \in 1..Len(heap) :
            heap'[ref].vars # heap[ref].vars =>
                \A o \in (1..Len(heap)) \ {ref} : heap'[o].vars = heap[o].vars]_vars

C12_Witness ==
    /\ Shadowing /\ pc = "callback"
    /\ heap[env].vars[groupEnvKey] = NewIntegerValue(2)
    /\ heap[heap[env].outer].vars[groupEnvKey] = NewIntegerValue(0)
    /\ EnvGet(heap, env, groupEnvKey) = NewIntegerValue(2)
    /\ EnvGet(heap, heap[env].outer, groupEnvKey) = NewIntegerValue(0)
    /\ Len(delivered) > 0

(***************************************************************************)
(* C13: the frames Map and GroupBy deliver.                                *)
(***************************************************************************)
MapOrGroupBy == Only("map") \/ Only("groupBy")

\* C13, as claimed: Map and GroupBy deliver a fresh frame for each item, so
\* the frame delivered for item i is another frame than the one delivered
\* for item i+1, and what the callback saw in it (current value, bindings,
\* outer reference) is still there after item i+1 has been processed.
C13_FreshFramePerItem ==
    MapOrGroupBy =>
        \A i \in 1..Len(delivered) :
            /\ i < Len(delivered) => delivered[i].env # delivered[i + 1].env
            /\ Seen(heap, delivered[i].env) = delivered[i]

\* C13, as the code has it: Op() allocates one frame (var newEnv) and the
\* closure returns &newEnv for every item.  Every delivery is that one
\* frame; each had the incoming Environment of its own item as outer
\* reference, so the frame was overwritten between any two deliveries, and
\* between invocations it holds what the last delivery saw.
C13_OneFramePerTraversal ==
    MapOrGroupBy =>
        /\ \A i \in 1..Len(delivered) :
              /\ delivered[i].env = fn[1].newEnv
              /\ delivered[i].outer = pulls[i].env
        /\ \A i, j \in 1..Len(delivered) : i < j => delivered[i].outer # delivered[j].outer
        /\ (pc \in {"pull", "return", "done"} /\ delivered # <<>>) =>
              Seen(heap, fn[1].newEnv) = delivered[Len(delivered)]

C13_Witness ==
    /\ Only("map") /\ Done /\ Len(delivered) = 2
    /\ delivered[1].env = delivered[2].env
    /\ delivered[1].cur = NewIntegerValue(10)
    /\ heap[delivered[1].env].cur = NewIntegerValue(20)
    /\ heap[delivered[1].env].outer = pulls[2].env

\* C14: during one traversal of Reduce.Pipe(s) the sub-stream s is traversed
\* once, by the Iterate call inside Reduce's construction: every pull from
\* the source happens while Reduce drains, an item of a source that cannot
\* start over is pulled at most once, and after construction s is not
\* iterated again (its source is not asked for items by the caller's
\* Iterate).
C14_SubStreamOnce ==
    HasReduce =>
        /\ \A i \in 1..Len(pulls) : pulls[i].phase = "drain"
        /\ ~rewinds => \A i, j \in 1..Len(pulls) : pulls[i].idx = pulls[j].idx => i = j
        /\ ~(phase = "main" /\ pc = "pull")

(***************************************************************************)
(* C15: an error during Reduce's construction.                             *)
(***************************************************************************)
\* the Reduce operator and the _acc its frame holds
TheReduce == Len(ops)
Acc == EnvGet(heap, fn[TheReduce].newEnv, accEnvKey)
\* op.Stream.Iterate has come back with an error that is not the sentinel
DrainFailed == phase = "drain" /\ pc = "return" /\ Returned(err) # NoErr
\* S up to its first item that is not an integer, that item excluded
GoodPrefix(S) == SubSeq(S, 1, FirstBad(S, 1) - 1)

\* C15: when the seed, an accumulator evaluation or the sub-stream's
\* traversal fails while Reduce is constructed, Op() returns that error and
\* no closure: no later item is pulled or accumulated, Reduce's closure and
\* the caller's callback are never invoked, and the caller's Iterate returns
\* that very error.  A failing seed fails before anything is pulled; an
\* accumulator failing on the b-th item fails after exactly b pulls, _acc
\* being the fold of the b-1 items before.
C15_ConstructionError ==
    /\ [](HasReduce /\ ops[TheReduce].seed = Failing =>
            /\ pulls = <<>> /\ log = <<>> /\ delivered = <<>>
            /\ fn[TheReduce].newEnv = Nil
            /\ Done => result = EvalError)
    /\ [](HasReduce /\ Done /\ result # NoErr =>
            /\ delivered = <<>>
            /\ StepsOf(TheReduce) = <<>>
            /\ \A i \in 1..Len(pulls) : pulls[i].phase = "drain"
            /\ \A i \in 1..Len(log) : log[i].phase = "drain"
            /\ result = err)
    /\ [](ReduceOverSource /\ Done /\ FirstBad(source, 1) <= Len(source) =>
            /\ result = EvalError
            /\ Len(pulls) = FirstBad(source, 1)
            /\ Acc = NewIntegerValue(LeftFold(0, GoodPrefix(source), 1))
            /\ delivered = <<>>)
    /\ [][DrainFailed =>
            /\ pc' = "return" /\ phase' = "main" /\ err' = err
            /\ UNCHANGED <<heap, fn, cursor, pulls, log, delivered>>]_vars
    /\ [][(HasReduce /\ phase = "main" /\ pc = "return" /\ Returned(err) # NoErr) =>
            result' = err /\ pc' = "done"]_vars

C15_Witness ==
    /\ ReduceOverSource /\ Done
    /\ source = <<NewIntegerValue(1), Text, NewIntegerValue(2)>>
    /\ result = EvalError
    /\ Len(pulls) = 2
    /\ Acc = NewIntegerValue(1)
    /\ delivered = <<>> /\ log = <<>>

\* the pipeline groupBy(x % 2) -> reduce(0, _acc * 10 + x)
GroupedReduce == ops = <<GroupBy(Parity), Reduce(Lit(NewIntegerValue(0)), Shift)>>
\* the group keys the sub-stream's items were annotated with while draining
DrainedGroups ==
    {EvalOn(Parity, source[pulls[i].idx]).val :
        i \in {j \in 1..Len(pulls) : pulls[j].phase = "drain"}}

Annotated(i) ==
    /\ delivered[i].group = EvalOn(ops[1].e, source[i]).val
    /\ delivered[i].outer = pulls[i].env
    /\ delivered[i].value = source[i]

\* C17, as claimed: for every source S, groupBy delivers exactly |S|
\* frames in source order, never suppressing or closing, the i-th frame
\* being the i-th incoming Environment annotated.
C17_EveryItemAnnotated ==
    Only("groupBy") =>
        /\ \A i \in 1..Len(delivered) : Annotated(i)
        /\ \A i \in 1..Len(log) : log[i].out # Nil /\ log[i].err # ErrStreamClosed
        /\ Done => Len(delivered) = Len(source)

\* C17, as the code has it: groupBy never suppresses and never closes, and
\* delivers one annotated frame per item as long as its expression
\* evaluates; when the expression fails on the b-th item the closure answers
\* that error and no frame, and the traversal ends with that error after
\* b-1 deliveries.  In any pipeline, the frame groupBy returns answers every
\* name but _group, and the current value, as the incoming Environment does.
C17_GroupByAnnotates ==
    /\ [](Only("groupBy") =>
            LET b == FirstBad(source, 1)
            IN  /\ Len(delivered) < b
                /\ \A i \in 1..Len(delivered) : Annotated(i)
                /\ \A i \in 1..Len(log) :
                      /\ log[i].err # ErrStreamClosed
                      /\ log[i].out = Nil <=> log[i].err # NoErr
                      /\ log[i].err # NoErr <=> i = b
                /\ Done =>
                      /\ Len(delivered) = b - 1
                      /\ result = (IF b <= Len(source) THEN EvalError ELSE NoErr))
    /\ [][(pc = "step" /\ ops[k].kind = "groupBy" /\ pc' # "return") =>
            /\ env' = fn[k].newEnv
            /\ heap'[env'].outer = env
            /\ EnvGet(heap', env', groupEnvKey) = Eval(ops[k].e, heap, env).val
            /\ \A x \in Names \ {groupEnvKey} : EnvGet(heap', env', x) = EnvGet(heap, env, x)
            /\ GetCurrentValue(heap', env') = GetCurrentValue(heap, env)]_vars

C17_Witness ==
    /\ Only("groupBy") /\ Done
    /\ source = <<NewIntegerValue(2), NewIntegerValue(1), NewIntegerValue(2)>>
    /\ Len(delivered) = 3
    /\ [i \in 1..3 |-> delivered[i].group] = <<NewIntegerValue(0), NewIntegerValue(1), NewIntegerValue(0)>>
    /\ \A i \in 1..3 : delivered[i].outer = pulls[i].env

(***************************************************************************)
(* C18: take inside the sub-stream Reduce drains.                          *)
(***************************************************************************)
\* the pipeline take(n) -> reduce(0, _acc * 10 + x)
TakeThenReduce(n) ==
    ops = <<Take(Lit(NewIntegerValue(n))), Reduce(Lit(NewIntegerValue(0)), Shift)>>
\* the items pulled while Reduce drained
DrainPulls == SelectSeq(pulls, LAMBDA q : q.phase = "drain")

\* C18: with take(n) in the sub-stream, the sentinel take answers ends the
\* draining as a success: op.Stream.Iterate returns nil, Op() goes on to
\* return its closure, and _acc is the left fold of the seed over the first
\* min(n, |S|) items of the source, no more and no fewer (those items being
\* ones the accumulator evaluates on); the traversal itself returns nil.
C18_TakeInsideReduce ==
    /\ [](\A n \in 0..MaxCount :
            (TakeThenReduce(n) /\ AllInt(SubSeq(source, 1, Min(n, Len(source))))) =>
                LET m == Min(n, Len(source))
                IN  /\ (phase = "drain" /\ pc \in {"pull", "return"}) =>
                          /\ fn[1].count <= m
                          /\ Acc = NewIntegerValue(LeftFold(0, SubSeq(source, 1, fn[1].count), 1))
                    /\ (phase = "drain" /\ pc = "return") =>
                          /\ fn[1].count = m
                          /\ err \in {NoErr, ErrStreamClosed}
                          /\ err = ErrStreamClosed <=> Len(source) > n
                    /\ (phase = "main" /\ fn[TheReduce].newEnv # Nil) =>
                          /\ err \in {NoErr, ErrStreamClosed}
                          /\ Acc = NewIntegerValue(LeftFold(0, SubSeq(source, 1, m), 1))
                          /\ Len(DrainPulls) = Min(n + 1, Len(source))
                    /\ Done => result = NoErr)
    /\ [][(HasReduce /\ phase = "drain" /\ pc = "return" /\ err = ErrStreamClosed) =>
            /\ err' = NoErr
            /\ pc' = "construct" /\ phase' = "main"
            /\ UNCHANGED <<heap, fn>>]_vars

C18_Witness ==
    /\ TakeThenReduce(2) /\ Done /\ rewinds
    /\ source = <<NewIntegerValue(1), NewIntegerValue(2), NewIntegerValue(1)>>
    /\ Acc = NewIntegerValue(12)
    /\ Len(DrainPulls) = 3
    /\ \E i \in 1..Len(log) : log[i].phase = "drain" /\ log[i].err = ErrStreamClosed
    /\ result = NoErr

\* C19: take(n) with n <= 0.  Op() accepts a negative count without error;
\* the closure answers the sentinel on its very first call (count < n is
\* false from the start), so a traversal over any source pulls at most one
\* item, delivers none and returns nil; the counter is never incremented,
\* so it never exceeds max(n, 0).
C19_TakeNonPositive ==
    \A n \in -1..0 :
        (Only("take") /\ CountIs(1, n)) =>
            /\ delivered = <<>>
            /\ fn[1].count = 0
            /\ fn[1].count <= Max(n, 0)
            /\ pc \notin {"idle", "construct"} => fn[1].n = n
            /\ err \in {NoErr, ErrStreamClosed}
            /\ Len(log) <= 1
            /\ \A i \in 1..Len(log) : log[i].err = ErrStreamClosed /\ log[i].out = Nil
            /\ Done =>
                  /\ result = NoErr
                  /\ Len(pulls) = Min(1, Len(source))
                  /\ Len(log) = Len(pulls)

C19_Witness ==
    /\ Only("take") /\ CountIs(1, -1) /\ Done
    /\ Len(source) = 3
    /\ fn[1].n = -1 /\ fn[1].count = 0
    /\ Len(pulls) = 1
    /\ Len(log) = 1 /\ log[1].err = ErrStreamClosed
    /\ delivered = <<>>
    /\ result = NoErr

====
